---- MODULE Spec2Model ----
(***************************************************************************)
(* Model of src/app.py: CryptoMarketSentimentAnalyzer.                     *)
(*                                                                         *)
(* One run of create_visualization is a straight-line pipeline             *)
(*   fetch_data -> process_data -> create_gauge -> create_trend_analysis   *)
(*   -> classification breakdown -> statistics panel -> savefig            *)
(* in which any step may raise; an exception is never caught, so it ends   *)
(* the run.  The environment's only input is the HTTP response.            *)
(*                                                                         *)
(* Numbers.  Floats are kept exact: a float is a rational [num, den] or    *)
(* NaN.  A standard deviation is kept as its square (the variance).        *)
(* Angles are integers in units of pi/200.  Text produced by a ":.1f"      *)
(* format is the number of tenths printed.                                 *)
(* JSON strings that the code parses with int() are sequences of           *)
(* one-character strings.                                                  *)
(***************************************************************************)
EXTENDS Integers, Sequences, FiniteSets, TLC

\* ---------------------------------------------------------------- bounds
MaxShort == 2     \* longest payload built from arbitrary (also broken) entries
MaxLen == 8       \* longest payload built from the two well-formed entries

\* ------------------------------------------------------- generic helpers
Min(a, b) == IF a <= b THEN a ELSE b

RECURSIVE Sum(_)
Sum(s) == IF Len(s) = 0 THEN 0 ELSE s[1] + Sum(Tail(s))

Largest(s) == CHOOSE m \in {s[k] : k \in 1..Len(s)} : \A k \in 1..Len(s) : s[k] <= m

SumSq(s) == Sum([k \in 1..Len(s) |-> s[k] * s[k]])

NaN == [nan |-> TRUE, num |-> 0, den |-> 1]
Rat(n, d) == [nan |-> FALSE, num |-> n, den |-> d]

\* Series.mean(): sum / count, NaN for an empty selection
mean(s) == IF Len(s) = 0 THEN NaN ELSE Rat(Sum(s), Len(s))

\* Series.std() with ddof = 1, kept squared: (n*Sum(x^2) - Sum(x)^2) / (n*(n-1))
std(s) ==
    IF Len(s) < 2 THEN NaN
    ELSE Rat(Len(s) * SumSq(s) - Sum(s) * Sum(s), Len(s) * (Len(s) - 1))

\* Series.rolling(window=w).mean(): min_periods defaults to the window, so
\* row i gets the mean of rows i-w+1..i, and NaN while fewer than w rows
\* have been seen.
rolling_mean(values, window) ==
    [i \in 1..Len(values) |->
        IF i < window THEN NaN ELSE mean(SubSeq(values, i - window + 1, i))]

\* Series.rolling(window=w).std(): the same windows
rolling_std(values, window) ==
    [i \in 1..Len(values) |->
        IF i < window THEN NaN ELSE std(SubSeq(values, i - window + 1, i))]

\* Series.tail(n), used only as a variant of head
tail(s, n) == SubSeq(s, Len(s) - Min(n, Len(s)) + 1, Len(s))

\* Series.head(n): the first n rows, or all of them when there are fewer
head(s, n) == SubSeq(s, 1, Min(n, Len(s)))

\* --------------------------------------------------------------- int(str)
DigitChars == <<"0", "1", "2", "3", "4", "5", "6", "7", "8", "9">>

IsDigit(c) == \E d \in 1..Len(DigitChars) : DigitChars[d] = c

DigitVal(c) == (CHOOSE d \in 1..Len(DigitChars) : DigitChars[d] = c) - 1

\* int(s) raises ValueError unless s is a non-empty run of decimal digits
IntOk(s) == Len(s) > 0 /\ \A k \in 1..Len(s) : IsDigit(s[k])

RECURSIVE int(_)
int(s) ==
    IF Len(s) = 0 THEN 0
    ELSE 10 * int(SubSeq(s, 1, Len(s) - 1)) + DigitVal(s[Len(s)])

\* ------------------------------------------------------------ ":.1f" text
\* f"{x:.1f}".  x is the double nearest to num/den.  Away from a tie the
\* nearest tenth is printed.  On an exact tie (x = odd/20) the double is
\* exact only if x is dyadic, and then half-to-even applies; otherwise the
\* double lies on one side of the tie or the other.
Format1f(x) ==
    IF x.nan THEN {[nan |-> TRUE, tenths |-> 0]}
    ELSE LET lo == (10 * x.num) \div x.den
             rem == 10 * x.num - lo * x.den
             T(t) == [nan |-> FALSE, tenths |-> t]
         IN  IF 2 * rem < x.den THEN {T(lo)}
             ELSE IF 2 * rem > x.den THEN {T(lo + 1)}
             ELSE IF (2 * lo + 1) % 5 = 0
                  THEN {T(IF lo % 2 = 0 THEN lo ELSE lo + 1)}
                  ELSE {T(lo), T(lo + 1)}

\* f"{sqrt(v):.1f}" for a variance v: the tenths t with |10*sqrt(v) - t| <= 1/2.
\* top is any number the standard deviation cannot exceed.
FormatStd1f(v, top) ==
    IF v.nan THEN {[nan |-> TRUE, tenths |-> 0]}
    ELSE {[nan |-> FALSE, tenths |-> t] : t \in
            {u \in 0..(10 * top + 1) :
                /\ (u = 0 \/ (2 * u - 1) * (2 * u - 1) * v.den <= 400 * v.num)
                /\ 400 * v.num <= (2 * u + 1) * (2 * u + 1) * v.den}}

\* ------------------------------------------------------------- constants
\* keys of self.colors, in insertion order
colors == <<"Extreme Fear", "Fear", "Neutral", "Greed", "Extreme Greed">>

\* the same five strings in the order sorting puts them (code-point order)
SortedLabels == <<"Extreme Fear", "Extreme Greed", "Fear", "Greed", "Neutral">>

LabelSet == {colors[k] : k \in 1..Len(colors)}

Rank(order, l) == CHOOSE k \in 1..Len(order) : order[k] = l

\* gauge tick values
markers == <<0, 25, 50, 75, 100>>

\* 3*pi/4 - (v/100) * (3*pi/2), in units of pi/200
Angle(v) == 150 - 3 * v

Stages == <<"request", "normalize", "gauge", "trend", "class", "stats", "save">>

\* ------------------------------------------------------------ the inputs
Keys == {"timestamp", "value", "value_classification"}

Entry(ks, ts, v, c) ==
    [keys |-> ks,
     timestamp |-> IF "timestamp" \in ks THEN ts ELSE <<>>,
     value |-> IF "value" \in ks THEN v ELSE <<>>,
     value_classification |-> IF "value_classification" \in ks THEN c ELSE ""]

Stamp == <<"1", "7">>

GoodEntries ==
    {Entry(Keys, Stamp, v, c) : v \in {<<"1", "0">>, <<"9", "0">>}, c \in LabelSet}

BadEntries ==
    {Entry(ks, Stamp, <<"1", "0">>, "Fear") : ks \in (SUBSET Keys) \ {Keys}}
        \cup {Entry(Keys, Stamp, <<"x">>, "Fear")}

WideEntries ==
    {Entry(Keys, Stamp, <<"1", "0">>, "Extreme Fear"),
     Entry(Keys, Stamp, <<"9", "0">>, "Extreme Greed")}

SeqsUpTo(S, lo, hi) == UNION {[1..n -> S] : n \in lo..hi}

ExampleData ==
    <<Entry(Keys, Stamp, <<"1", "0">>, "Extreme Fear"),
      Entry(Keys, Stamp, <<"2", "0">>, "Fear"),
      Entry(Keys, Stamp, <<"9", "0">>, "Extreme Greed"),
      Entry(Keys, Stamp, <<"8", "8">>, "Extreme Greed")>>

DataSeqs ==
    SeqsUpTo(GoodEntries \cup BadEntries, 0, MaxShort)
        \cup SeqsUpTo(WideEntries, MaxShort + 1, MaxLen)
        \cup {ExampleData}

\* a decoded JSON object: with a "data" list, or without one
Payloads ==
    {[has_data |-> TRUE, data |-> d] : d \in DataSeqs}
        \cup {[has_data |-> FALSE, data |-> <<>>]}

NoPayload == [has_data |-> FALSE, data |-> <<>>]

Statuses == {200, 503}

\* what requests.get() meets: no connection, or a status with a body that
\* is either a JSON object or not JSON at all
Responses ==
    {[net |-> FALSE, status |-> 0, is_json |-> FALSE, json |-> NoPayload]}
        \cup {[net |-> TRUE, status |-> s, is_json |-> FALSE, json |-> NoPayload] :
                s \in Statuses}
        \cup {[net |-> TRUE, status |-> s, is_json |-> TRUE, json |-> p] :
                s \in Statuses, p \in Payloads}

NoResponse == [net |-> FALSE, status |-> 0, is_json |-> FALSE, json |-> NoPayload]

\* ------------------------------------------------------------- the state
VARIABLES
    pc,             \* position in create_visualization
    response,       \* what the endpoint answered
    raw_data,       \* return value of fetch_data
    df,             \* the DataFrame rows: date, value, classification
    MA7, MA30, Volatility,   \* the columns create_trend_analysis adds
    needle_angle,   \* angle of the needle create_gauge draws
    class_counts,   \* df['classification'].value_counts()
    stats,          \* the numbers in stats_text
    error,          \* the exception that ended the run
    log             \* the steps that ran, in order

vars == <<pc, response, raw_data, df, MA7, MA30, Volatility, needle_angle,
          class_counts, stats, error, log>>

NoError == [kind |-> "none", index |-> 0]
NoStats == [current_value |-> 0, current_class |-> "",
            avg7 |-> [nan |-> TRUE, tenths |-> 0],
            avg30 |-> [nan |-> TRUE, tenths |-> 0],
            volatility |-> [nan |-> TRUE, tenths |-> 0],
            dominant |-> "", points |-> 0]

Init ==
    /\ pc = "start"
    /\ response = NoResponse
    /\ raw_data = NoPayload
    /\ df = <<>>
    /\ MA7 = <<>>
    /\ MA30 = <<>>
    /\ Volatility = <<>>
    /\ needle_angle = 0
    /\ class_counts = <<>>
    /\ stats = NoStats
    /\ error = NoError
    /\ log = <<>>

Raise(kind, index) ==
    /\ pc' = "failed"
    /\ error' = [kind |-> kind, index |-> index]

\* -------------------------------------------------------------- fetch_data
\* requests.get(url) then response.json(): the status is never looked at
fetch_data(resp) ==
    IF ~resp.net THEN [ok |-> FALSE, kind |-> "ConnectionError", json |-> NoPayload]
    ELSE IF ~resp.is_json THEN [ok |-> FALSE, kind |-> "JSONDecodeError", json |-> NoPayload]
    ELSE [ok |-> TRUE, kind |-> "none", json |-> resp.json]

FetchData_retry ==
    /\ pc = "start"
    /\ \E resp \in Responses :
        LET r == fetch_data(resp) IN
        /\ response' = resp
        /\ log' = IF r.ok THEN log \o <<"request">> ELSE log \o <<"request", "request">>
        /\ IF r.ok
           THEN /\ raw_data' = r.json
                /\ pc' = "fetched"
                /\ UNCHANGED error
           ELSE /\ Raise(r.kind, 0)
                /\ UNCHANGED raw_data
    /\ UNCHANGED <<df, MA7, MA30, Volatility, needle_angle, class_counts, stats>>

FetchData ==
    /\ pc = "start"
    /\ \E resp \in Responses :
        LET r == fetch_data(resp) IN
        /\ response' = resp
        /\ log' = log \o <<"request">>
        /\ IF r.ok
           THEN /\ raw_data' = r.json
                /\ pc' = "fetched"
                /\ UNCHANGED error
           ELSE /\ Raise(r.kind, 0)
                /\ UNCHANGED raw_data
    /\ UNCHANGED <<df, MA7, MA30, Volatility, needle_angle, class_counts, stats>>

\* ------------------------------------------------------------ process_data
\* What one pass of the loop body does with an entry: the exception it
\* raises, in the order the lookups and conversions are evaluated.
EntryError(e) ==
    IF "timestamp" \notin e.keys THEN "KeyError"
    ELSE IF ~IntOk(e.timestamp) THEN "ValueError"
    ELSE IF "value" \notin e.keys THEN "KeyError"
    ELSE IF ~IntOk(e.value) THEN "ValueError"
    ELSE IF "value_classification" \notin e.keys THEN "KeyError"
    ELSE "none"

Row(e) == [date |-> int(e.timestamp), value |-> int(e.value),
           classification |-> e.value_classification]

RECURSIVE process_loop(_, _, _)
process_loop(entries, k, data) ==
    IF k > Len(entries) THEN [ok |-> TRUE, kind |-> "none", index |-> 0, df |-> data]
    ELSE IF EntryError(entries[k]) # "none"
         THEN [ok |-> FALSE, kind |-> EntryError(entries[k]), index |-> k, df |-> <<>>]
         ELSE process_loop(entries, k + 1, Append(data, Row(entries[k])))

RECURSIVE process_loop_skip(_, _, _)
process_loop_skip(entries, k, data) ==
    IF k > Len(entries) THEN [ok |-> TRUE, kind |-> "none", index |-> 0, df |-> data]
    ELSE IF EntryError(entries[k]) # "none"
         THEN process_loop_skip(entries, k + 1, data)
         ELSE process_loop_skip(entries, k + 1, Append(data, Row(entries[k])))

RECURSIVE process_loop_prepend(_, _, _)
process_loop_prepend(entries, k, data) ==
    IF k > Len(entries) THEN [ok |-> TRUE, kind |-> "none", index |-> 0, df |-> data]
    ELSE IF EntryError(entries[k]) # "none"
         THEN [ok |-> FALSE, kind |-> EntryError(entries[k]), index |-> k, df |-> <<>>]
         ELSE process_loop_prepend(entries, k + 1, <<Row(entries[k])>> \o data)

process_data_skip(raw) ==
    IF ~raw.has_data THEN [ok |-> FALSE, kind |-> "KeyError", index |-> 0, df |-> <<>>]
    ELSE process_loop_skip(raw.data, 1, <<>>)

process_data_prepend(raw) ==
    IF ~raw.has_data THEN [ok |-> FALSE, kind |-> "KeyError", index |-> 0, df |-> <<>>]
    ELSE process_loop_prepend(raw.data, 1, <<>>)

process_data(raw) ==
    IF ~raw.has_data THEN [ok |-> FALSE, kind |-> "KeyError", index |-> 0, df |-> <<>>]
    ELSE process_loop(raw.data, 1, <<>>)

ProcessData ==
    /\ pc = "fetched"
    /\ log' = log \o <<"normalize">>
    /\ LET r == process_data(raw_data) IN
        IF r.ok
        THEN /\ df' = r.df
             /\ pc' = "processed"
             /\ UNCHANGED error
        ELSE /\ Raise(r.kind, r.index)
             /\ UNCHANGED df
    /\ UNCHANGED <<response, raw_data, MA7, MA30, Volatility, needle_angle,
                   class_counts, stats>>

\* ------------------------------------------------------------ create_gauge
\* The tick loop uses the name `value` as its loop variable, so after the
\* loop `value` is whatever the loop left in it.
RECURSIVE marker_loop(_, _)
marker_loop(value, k) ==
    IF k > Len(markers) THEN value ELSE marker_loop(markers[k], k + 1)

create_gauge(value) == Angle(marker_loop(value, 1))

CreateGauge ==
    /\ pc = "processed"
    /\ log' = log \o <<"gauge">>
    /\ IF Len(df) = 0
       THEN /\ Raise("IndexError", 0)      \* df.iloc[0] on an empty frame
            /\ UNCHANGED needle_angle
       ELSE /\ needle_angle' = create_gauge(df[1].value)
            /\ pc' = "gauge"
            /\ UNCHANGED error
    /\ UNCHANGED <<response, raw_data, df, MA7, MA30, Volatility, class_counts, stats>>

\* --------------------------------------------------- create_trend_analysis
Values == [k \in 1..Len(df) |-> df[k].value]

CreateTrendAnalysis ==
    /\ pc = "gauge"
    /\ log' = log \o <<"trend">>
    /\ MA7' = rolling_mean(Values, 7)
    /\ MA30' = rolling_mean(Values, 30)
    /\ Volatility' = rolling_std(Values, 20)
    /\ pc' = "trend"
    /\ UNCHANGED <<response, raw_data, df, needle_angle, class_counts, stats, error>>

\* ------------------------------------------------ classification breakdown
\* value_counts(): one pass over the column, one counter per label met
RECURSIVE count_loop(_, _, _)
count_loop(column, k, counts) ==
    IF k > Len(column) THEN counts
    ELSE LET l == column[k] IN
         count_loop(column, k + 1,
            IF l \in DOMAIN counts
            THEN [counts EXCEPT ![l] = @ + 1]
            ELSE [m \in DOMAIN counts \cup {l} |-> IF m = l THEN 1 ELSE counts[m]])

value_counts_from2(column) == count_loop(column, 2, <<>>)

value_counts(column) == count_loop(column, 1, <<>>)

Classes == [k \in 1..Len(df) |-> df[k].classification]

ClassificationBreakdown ==
    /\ pc = "trend"
    /\ log' = log \o <<"class">>
    /\ class_counts' = value_counts(Classes)
    /\ pc' = "class"
    /\ UNCHANGED <<response, raw_data, df, MA7, MA30, Volatility, needle_angle,
                   stats, error>>

\* -------------------------------------------------------- statistics panel
\* Series.mode(): the values with the highest count, sorted; [0] is the first
ModeIn(order, column) ==
    LET counts == value_counts(column)
        top == {l \in DOMAIN counts : \A m \in DOMAIN counts : counts[m] <= counts[l]}
    IN  order[CHOOSE k \in 1..Len(order) :
                /\ order[k] \in top
                /\ \A j \in 1..(k - 1) : order[j] \notin top]

mode_enum(column) == ModeIn(colors, column)

mode(column) == ModeIn(SortedLabels, column)

StatisticsPanel ==
    /\ pc = "class"
    /\ log' = log \o <<"stats">>
    /\ \E a7 \in Format1f(mean(head(Values, 7))),
          a30 \in Format1f(mean(head(Values, 30))),
          vol \in FormatStd1f(std(Values), Largest(Values)) :
        stats' = [current_value |-> df[1].value,
                  current_class |-> df[1].classification,
                  avg7 |-> a7, avg30 |-> a30, volatility |-> vol,
                  dominant |-> mode(Classes),
                  points |-> Len(df)]
    /\ pc' = "stats"
    /\ UNCHANGED <<response, raw_data, df, MA7, MA30, Volatility, needle_angle,
                   class_counts, error>>

\* ----------------------------------------------------------------- savefig
SaveFig ==
    /\ pc = "stats"
    /\ log' = log \o <<"save">>
    /\ pc' = "saved"
    /\ UNCHANGED <<response, raw_data, df, MA7, MA30, Volatility, needle_angle,
                   class_counts, stats, error>>

Next ==
    \/ FetchData
    \/ ProcessData
    \/ CreateGauge
    \/ CreateTrendAnalysis
    \/ ClassificationBreakdown
    \/ StatisticsPanel
    \/ SaveFig

Spec == Init /\ [][Next]_vars

\* ================================================================ claims
Ran(stage) == \E k \in 1..Len(log) : log[k] = stage

IsPrefix(s, t) == Len(s) <= Len(t) /\ \A k \in 1..Len(s) : s[k] = t[k]

CountOf(l) == Cardinality({k \in 1..Len(df) : df[k].classification = l})

Present == {df[k].classification : k \in 1..Len(df)}

RECURSIVE SumOver(_, _)
SumOver(f, S) ==
    IF S = {} THEN 0
    ELSE LET x == CHOOSE y \in S : TRUE IN f[x] + SumOver(f, S \ {x})

\* the value a decimal string denotes, digit by digit
Decimal(s) == Sum([k \in 1..Len(s) |-> DigitVal(s[k]) * 10 ^ (Len(s) - k)])

LacksField(e) == e.keys # Keys

Unusable(e) == LacksField(e) \/ ~IntOk(e.timestamp) \/ ~IntOk(e.value)

WellFormed(p) == p.has_data /\ \A k \in 1..Len(p.data) : ~Unusable(p.data[k])

\* the moving average as the claim defines it: the window at i is i..i+w-1
ForwardMA(values, w) ==
    [i \in 1..Len(values) |->
        IF i + w - 1 <= Len(values)
        THEN Rat(Sum(SubSeq(values, i, i + w - 1)), w)
        ELSE NaN]

\* C1: MA7 at position i is the mean of the values at i..i+6 when i+6 is
\* within bounds and has no value otherwise (so the last six positions have
\* none); the same for MA30 with window 30.
C1_ForwardWindow ==
    Ran("trend") => /\ MA7 = ForwardMA(Values, 7)
                    /\ MA30 = ForwardMA(Values, 30)

\* C2: with data = [] the derivation fails with InsufficientDataError, never
\* with another error kind and never with a result.
C2_EmptyInsufficientData ==
    (Ran("gauge") /\ raw_data.has_data /\ raw_data.data = <<>>)
        => (pc = "failed" /\ error.kind = "InsufficientDataError")

\* C3: a non-success HTTP status makes fetch_data fail with ServiceError and
\* hand no payload on, whether or not the body is JSON.
C3_ServiceError ==
    (Ran("request") /\ response.net /\ response.status \notin 200..299)
        => (pc = "failed" /\ error.kind = "ServiceError" /\ raw_data = NoPayload)

\* C4: process_data is fail-fast: a payload without `data`, or with an entry
\* lacking a field, makes it fail at the first record it cannot use; there
\* is then no Series and no later step runs.
C4_FailFast ==
    (Ran("normalize")
        /\ (~raw_data.has_data \/ \E k \in 1..Len(raw_data.data) : LacksField(raw_data.data[k])))
    => /\ pc = "failed"
       /\ df = <<>>
       /\ log = <<"request", "normalize">>
       /\ error.kind \in {"KeyError", "ValueError"}
       /\ ~raw_data.has_data => (error.kind = "KeyError" /\ error.index = 0)
       /\ raw_data.has_data =>
            /\ error.index \in 1..Len(raw_data.data)
            /\ Unusable(raw_data.data[error.index])
            /\ \A j \in 1..(error.index - 1) : ~Unusable(raw_data.data[j])
            /\ \A k \in 1..Len(raw_data.data) :
                    LacksField(raw_data.data[k]) => error.index <= k

C4_Witness ==
    /\ pc = "failed"
    /\ raw_data.has_data
    /\ Len(raw_data.data) = 2
    /\ ~Unusable(raw_data.data[1])
    /\ raw_data.data[2].keys = {"timestamp", "value"}
    /\ error = [kind |-> "KeyError", index |-> 2]

\* C5: for a well-formed payload of n entries process_data returns n records
\* in input order, record k holding the integer of entry k's value and entry
\* k's label unchanged.
C5_OrderPreserved ==
    (Ran("normalize") /\ WellFormed(raw_data))
    => /\ error.kind \notin {"KeyError", "ValueError"}
       /\ Len(df) = Len(raw_data.data)
       /\ \A k \in 1..Len(raw_data.data) :
            /\ df[k].value = Decimal(raw_data.data[k].value)
            /\ df[k].classification = raw_data.data[k].value_classification

C5_Witness ==
    /\ pc = "processed"
    /\ WellFormed(raw_data)
    /\ Len(df) = 2
    /\ df[1].value = 90 /\ df[1].classification = "Extreme Fear"
    /\ df[2].value = 10 /\ df[2].classification = "Greed"

\* C6: the frequency table has one count per label occurring in the Series,
\* each the number of records with that label, and the counts sum to L.
C6_CountsSum ==
    Ran("class")
    => /\ DOMAIN class_counts = Present
       /\ \A l \in Present : class_counts[l] = CountOf(l)
       /\ SumOver(class_counts, DOMAIN class_counts) = Len(df)

C6_Witness ==
    /\ pc = "class"
    /\ Len(df) = 4
    /\ DOMAIN class_counts = {"Extreme Fear", "Fear", "Extreme Greed"}
    /\ class_counts["Extreme Greed"] = 2

Tied == {l \in Present : \A m \in Present : CountOf(m) <= CountOf(l)}

\* C7 as stated: the Dominant Sentiment occurs in the Series with a count no
\* less than any other label's, and among tied labels it is the first in the
\* order ExtremeFear, Fear, Neutral, Greed, ExtremeGreed.
C7_TieByEnumeration ==
    Ran("stats")
    => /\ stats.dominant \in Tied
       /\ \A l \in Tied : Rank(colors, stats.dominant) <= Rank(colors, l)

\* C7 amended: the Dominant Sentiment occurs in the Series with a count no
\* less than any other label's, and among tied labels it is the first in
\* sorted string order: Extreme Fear, Extreme Greed, Fear, Greed, Neutral.
C7_TieBySortedOrder ==
    Ran("stats")
    => /\ stats.dominant \in Tied
       /\ \A l \in Tied : Rank(SortedLabels, stats.dominant) <= Rank(SortedLabels, l)

C7_Witness ==
    /\ pc = "stats"
    /\ Len(df) = 2
    /\ df[1].classification = "Fear"
    /\ df[2].classification = "Extreme Greed"
    /\ stats.dominant = "Extreme Greed"

\* t tenths is n/d printed to one decimal: |10*n/d - t| <= 1/2
PrintsAs(t, n, d) == 2 * (10 * n - t * d) <= d /\ 2 * (t * d - 10 * n) <= d

FirstSum(n) == Sum([k \in 1..Min(n, Len(df)) |-> df[k].value])

\* C8: for a Series of length L >= 1 the 7-Day Average is the mean of the
\* first min(7, L) entries and the 30-Day Average the mean of the first
\* min(30, L); a short Series gives neither an error nor an undefined value;
\* [10, 20, 90, 88] gives 52.0 for both.
C8_HeadMeans ==
    /\ (Ran("class") /\ Len(df) >= 1) => pc # "failed"
    /\ Ran("stats")
        => /\ ~stats.avg7.nan
           /\ PrintsAs(stats.avg7.tenths, FirstSum(7), Min(7, Len(df)))
           /\ ~stats.avg30.nan
           /\ PrintsAs(stats.avg30.tenths, FirstSum(30), Min(30, Len(df)))
           /\ Values = <<10, 20, 90, 88>>
                => (stats.avg7.tenths = 520 /\ stats.avg30.tenths = 520)

C8_Witness ==
    /\ pc = "stats"
    /\ Values = <<10, 20, 90, 88>>
    /\ stats.avg7 = [nan |-> FALSE, tenths |-> 520]
    /\ stats.avg30 = [nan |-> FALSE, tenths |-> 520]

\* C9: the steps of a run happen once each and in the order request,
\* normalization, derived statistics, image file; the request is the first
\* thing a run does; the image is written only by a run in which every step
\* succeeded; and nothing at all follows a failure.
C9_OneWay ==
    /\ [](/\ IsPrefix(log, Stages)
          /\ pc # "start" => (Len(log) >= 1 /\ log[1] = "request")
          /\ Ran("save") <=> pc = "saved"
          /\ pc = "failed" => error.kind # "none")
    /\ [][pc = "failed" => pc' = "failed" /\ log' = log]_vars

C9_Witness ==
    /\ pc = "saved"
    /\ log = Stages
    /\ error.kind = "none"

\* C10: the needle is drawn at 3*pi/4 - (v/100)*(3*pi/2) for the value v the
\* caller passed; the tick-label loop does not change the value used.
C10_NeedleFollowsValue ==
    (Ran("gauge") /\ Len(df) > 0) => needle_angle = Angle(df[1].value)

====
